---- MODULE Spec2Model ----
(***************************************************************************)
(* Connection / resilience layer of keos-api:                              *)
(*   - document store client   (config/mongodb.js, src/unnamed/part_004)   *)
(*   - relational store client (src/config/database.js)                    *)
(*   - messaging bridge        (src/config/mqtt.js)                        *)
(*   - process lifecycle glue  (signal handlers, startup connects)         *)
(* Node runs one thread: a handler runs without interruption up to its     *)
(* next await, so every action below is one such run-to-await segment.     *)
(* A call that has returned is kept, for the one state that follows its    *)
(* return, in lastDoc / lastDb / lastPub: the claims about results read it *)
(* there.                                                                  *)
(***************************************************************************)
EXTENDS Naturals, Sequences, FiniteSets, Bags

\* ------------------------------------------------------------------ bounds
NumDocTasks == 1
MaxMongoClients == 2
NumDbTasks == 2
NumReaders == 1
MaxDbConns == 2
MaxFnWrites == 1
NumPubTasks == 1
MaxMqttClients == 2
MaxLoads == 1
NumSubTasks == 1
MaxListeners == 2
NumFiles == 3
MaxRuns == 2

\* ------------------------------------------------------------------ state
VARIABLES
    USE_MONGODB,    \* process.env.USE_MONGODB: "unset", "true" or "false"
    client,         \* part_004:15  module variable; 0 is null, else a MongoClient id
    db,             \* part_004:16  0 is null, else the id of the client the handle belongs to
    isConnected,    \* part_004:17
    mongoClients,   \* every MongoClient constructed: id -> "unused"|"connecting"|"open"|"closed" (closed: ended, or never opened)
    mongoUp,        \* whether the document-store server is reachable
    docTask,        \* the callers of the document store client, one record per logical task
    lastDoc         \* the document-store call that has just returned, if the last step returned one

VARIABLES
    connection,     \* database.js:5  this.connection; 0 is null, else a connection id
    dbConns,        \* every connection createConnection() made: id -> "unused"|"creating"|"open"|"ended"
    inTx,           \* per connection: the server session has a transaction open
    pending,        \* per connection: the writes of its open transaction, not yet durable
    rows,           \* the durable writes of the relational store (of each task's latest call)
    dbTask,         \* the callers of the relational client, one record per logical task
    lastDb,         \* the relational call that has just returned, if the last step returned one
    migTable,       \* the migrations table: per filename "none" (no row), "failed" or "success"
    migRun,         \* the migration runner's process: where run() is, what is left, what it ran
    lastExec        \* the executeMigration() call that has just returned, if any

VARIABLES
    rnd,            \* the number of Math.random() draws so far; the next draw is rnd + 1
    CONFIG,         \* mqtt.js:51
    MQTT_CONFIG,    \* mqtt.js:52  the options object handed to mqtt.connect()
    mqttClient,     \* mqtt.js:55  0 is null, else a client id
    bridgeClients,  \* every client mqtt.connect() made: id -> [state, cid, promise]
    presented,      \* the client identifiers the broker has been presented so far
    reused,         \* some connection attempt presented an identifier presented before
    lastAttempt,    \* the connection attempt that has just started, if any
    pubTask,        \* the callers of publishMessage(), one record per logical task
    lastPub,        \* the publishMessage() call that has just handed its message over or settled, if any
    lastReload,     \* the reloadConfig() call that has just returned, if any
    subTask,        \* the callers of subscribeToTopic(), one record per logical task
    listeners,      \* per client: the bag of its 'message' listeners, <<topic, callback>>
    lastMsg         \* the message that has just arrived: its client, its topic, the listeners that called back

VARIABLES
    proc,           \* the server process: "running", "exited" (process.exit(0)) or "crashed"
    sigHandler,     \* the signal listeners of config/database.js and config/mongodb.js
    closeCalls      \* the clients whose close operation a signal listener has called

docVars == <<USE_MONGODB, client, db, isConnected, mongoClients, mongoUp, docTask, lastDoc>>
migVars == <<migTable, migRun, lastExec>>

relVars == <<connection, dbConns, inTx, pending, rows, dbTask, lastDb, migVars>>

subVars == <<subTask, listeners, lastMsg>>

bridgeVars == <<rnd, CONFIG, MQTT_CONFIG, mqttClient, bridgeClients, presented,
                reused, lastAttempt, pubTask, lastPub, lastReload, subVars>>

lifeVars == <<proc, sigHandler, closeCalls>>

vars == <<docVars, relVars, bridgeVars, lifeVars>>

\* what the steps of one component leave alone
NotDoc == <<relVars, bridgeVars, lifeVars>>
NotRel == <<docVars, bridgeVars, lifeVars, migVars>>
NotBridge == <<docVars, relVars, lifeVars>>

\* ------------------------------------------------- document store client
\* task 0 is the process lifecycle glue (the startup connect of server.js, the
\* close of the signal handlers); tasks 1..NumDocTasks are request handlers
Lifecycle == 0
Handlers == 1..NumDocTasks
DocTasks == {Lifecycle} \cup Handlers
MongoIds == 1..MaxMongoClients

DataOps == {"insert", "find", "update", "delete", "aggregate"}
SeqOps == {"find", "aggregate"}

NoResult ==
    [threw |-> FALSE, success |-> FALSE, degraded |-> FALSE, error |-> "",
     hasData |-> FALSE, data |-> <<>>, handle |-> 0]

IdleDocTask ==
    [pc |-> "idle", op |-> "none", mine |-> 0, coll |-> 0,
     sawShouldUse |-> FALSE, sawConnected |-> FALSE,
     touched |-> FALSE, attempted |-> FALSE, excRaised |-> FALSE,
     result |-> NoResult,
     route |-> FALSE, status |-> 0, degradedBody |-> FALSE]

\* process.env.USE_MONGODB !== 'false'
FeatureEnabled == USE_MONGODB # "false"

isMongoDBConnected == isConnected

\* shouldUseMongoDB() testing the connection alone
shouldUseMongoDB_flagIgnored == isConnected

\* shouldUseMongoDB()
shouldUseMongoDB == FeatureEnabled /\ isConnected

\* the early return without the empty data array
unavailableResult_noData(op) ==
    [NoResult EXCEPT !.degraded = TRUE, !.error = "MongoDB not available"]

\* the early return of every data operation when shouldUseMongoDB() is false
unavailableResult(op) ==
    [NoResult EXCEPT !.degraded = TRUE, !.error = "MongoDB not available",
                     !.hasData = (op \in SeqOps)]

\* the return of every data operation when getCollection() gave null
noCollectionResult(op) ==
    [NoResult EXCEPT !.degraded = TRUE, !.error = "Collection not available",
                     !.hasData = (op \in SeqOps)]

\* a catch block that raises the error again
catchResult_rethrows(op) ==
    [NoResult EXCEPT !.threw = TRUE, !.error = "error.message"]

\* the catch block of every data operation
catchResult(op) ==
    [NoResult EXCEPT !.degraded = TRUE, !.error = "error.message",
                     !.hasData = (op \in SeqOps)]

\* the success return of every data operation; docs is what the cursor gave
successResult(op, docs) ==
    [NoResult EXCEPT !.success = TRUE, !.hasData = (op \in SeqOps),
                     !.data = IF op \in SeqOps THEN docs ELSE <<>>]

FreshMongoIds == {i \in MongoIds : mongoClients[i] = "unused"}

DocInit ==
    /\ USE_MONGODB \in {"unset", "true", "false"}
    /\ client = 0
    /\ db = 0
    /\ isConnected = FALSE
    /\ mongoClients = [i \in MongoIds |-> "unused"]
    /\ mongoUp \in BOOLEAN
    /\ docTask = [t \in DocTasks |-> IdleDocTask]
    /\ lastDoc = IdleDocTask

\* the operations of the /api/logs data endpoints
RouteOps == {"find", "insert"}

\* a route handler that answers with the result without looking at "degraded"
handlerResponse_degradedIgnored(rec) ==
    IF rec.result.threw THEN [rec EXCEPT !.status = 500]
    ELSE IF rec.op \in SeqOps
    THEN [rec EXCEPT !.status = IF rec.result.hasData THEN 200 ELSE 500]
    ELSE [rec EXCEPT !.status = 201]

\* the rest of a /api/logs route handler once "await mongodb.findDocuments(..)"
\* or "await mongodb.insertDocument(..)" is back: 503 with degraded for a
\* degraded result, else the data (200) or the created entry (201); anything
\* raised on the way, the read of result.data.length included, goes to the
\* catch block and is answered 500
handlerResponse(rec) ==
    IF rec.result.threw THEN [rec EXCEPT !.status = 500]
    ELSE IF rec.result.degraded THEN [rec EXCEPT !.status = 503, !.degradedBody = TRUE]
    ELSE IF rec.op \in SeqOps
    THEN [rec EXCEPT !.status = IF rec.result.hasData THEN 200 ELSE 500]
    ELSE [rec EXCEPT !.status = 201]

\* the answer of the checkMongoDB middleware when shouldUseMongoDB() is false
checkMongoDBRefuses(rec) ==
    [rec EXCEPT !.pc = "done", !.status = 503, !.degradedBody = TRUE]

\* task t goes on as rec; a call that has returned (pc "done") frees the task,
\* and the route handler that awaited it answers in the same turn
DocStep(t, rec) ==
    /\ docTask' = [docTask EXCEPT ![t] = IF rec.pc = "done" THEN IdleDocTask ELSE rec]
    /\ lastDoc' = IF rec.pc # "done" THEN IdleDocTask
                  ELSE IF rec.route /\ rec.status = 0 THEN handlerResponse(rec)
                  ELSE rec
    /\ UNCHANGED <<USE_MONGODB, mongoUp>>
    /\ UNCHANGED NotDoc

\* the record of a call that starts now
DocCall(op) ==
    [IdleDocTask EXCEPT !.op = op, !.sawShouldUse = shouldUseMongoDB,
                        !.sawConnected = isConnected]

\* connectToMongoDB() without its early return
connectReturnsEarly_never == FALSE

\* connectToMongoDB(), up to its await: the early return of the live handle
connectReturnsEarly == client # 0 /\ isConnected

\* getMongoDB(): reconnects when the flag or the handle is missing
getMongoDBReconnects == ~isConnected \/ db = 0

\* connectToMongoDB() from "new MongoClient" to "await client.connect()"
BeginConnect(t, rec) ==
    /\ FreshMongoIds # {}
    /\ LET i == CHOOSE j \in FreshMongoIds : \A k \in FreshMongoIds : j <= k
       IN /\ client' = i
          /\ mongoClients' = [mongoClients EXCEPT ![i] = "connecting"]
          /\ DocStep(t, [rec EXCEPT !.pc = "connecting", !.mine = i, !.attempted = TRUE])
    /\ UNCHANGED <<db, isConnected>>

\* what the caller of connectToMongoDB()/getCollection() does with the handle h
\* (0 is null): a data operation goes on to the driver call, the others return it
AfterHandle(rec, h) ==
    IF rec.op \in DataOps
    THEN IF h = 0
         THEN [rec EXCEPT !.pc = "done", !.result = noCollectionResult(rec.op)]
         ELSE [rec EXCEPT !.pc = "storeOp", !.coll = h, !.touched = TRUE]
    ELSE [rec EXCEPT !.pc = "done",
                     !.result = [NoResult EXCEPT !.success = (h # 0), !.handle = h]]

\* a caller invokes connectToMongoDB() (server.js startup, or any later caller)
connectToMongoDB(t) ==
    /\ docTask[t].pc = "idle"
    /\ IF connectReturnsEarly
       THEN /\ DocStep(t, AfterHandle(DocCall("connect"), db))
            /\ UNCHANGED <<client, db, isConnected, mongoClients>>
       ELSE BeginConnect(t, DocCall("connect"))

\* getCollection() -> getMongoDB(), up to the first await that leaves the process
GetHandle(t, rec) ==
    IF getMongoDBReconnects /\ ~connectReturnsEarly
    THEN BeginConnect(t, rec)
    ELSE /\ DocStep(t, AfterHandle(rec, db))
         /\ UNCHANGED <<client, db, isConnected, mongoClients>>

getCollection(t) ==
    /\ docTask[t].pc = "idle"
    /\ GetHandle(t, DocCall("getCollection"))

\* insertDocument / findDocuments / updateDocument / deleteDocument /
\* aggregateDocuments, from the call to the driver call (or the early return)
DataOpStart(t, rec) ==
    IF ~shouldUseMongoDB
    THEN /\ DocStep(t, [rec EXCEPT !.pc = "done", !.result = unavailableResult(rec.op)])
         /\ UNCHANGED <<client, db, isConnected, mongoClients>>
    ELSE GetHandle(t, rec)

DataOpCall(t, op) ==
    /\ docTask[t].pc = "idle"
    /\ DataOpStart(t, DocCall(op))

\* a valid request to a /api/logs data endpoint: checkMongoDB, then next() runs
\* the handler in the same turn up to its "await mongodb.findDocuments(..)" or
\* "await mongodb.insertDocument(..)"
LogsRequest(t, op) ==
    /\ docTask[t].pc = "idle"
    /\ LET req == [DocCall(op) EXCEPT !.route = TRUE]
       IN IF ~shouldUseMongoDB
          THEN /\ DocStep(t, checkMongoDBRefuses(req))
               /\ UNCHANGED <<client, db, isConnected, mongoClients>>
          ELSE DataOpStart(t, req)

insertDocument(t) == DataOpCall(t, "insert")
findDocuments(t) == DataOpCall(t, "find")
updateDocument(t) == DataOpCall(t, "update")
deleteDocument(t) == DataOpCall(t, "delete")
aggregateDocuments(t) == DataOpCall(t, "aggregate")

\* "await client.connect()" settles: the rest of connectToMongoDB() and of its caller
ConnectSettles(t) ==
    /\ docTask[t].pc = "connecting"
    /\ LET rec == docTask[t]
           ok == mongoUp
           \* db = client.db(..) reads the module variable, which a close may have nulled
           h == IF ok /\ client # 0 THEN client ELSE 0
       IN /\ mongoClients' = [mongoClients EXCEPT ![rec.mine] = IF ok THEN "open" ELSE "closed"]
          /\ db' = IF h # 0 THEN h ELSE db
          /\ isConnected' = (h # 0)
          /\ DocStep(t, AfterHandle(rec, h))
    /\ UNCHANGED client

\* the driver call (insertOne, find().toArray(), updateOne, deleteOne,
\* aggregate().toArray()) settles: the result, or the transport's exception
StoreOpSettles(t) ==
    /\ docTask[t].pc = "storeOp"
    /\ LET rec == docTask[t]
           canSucceed == mongoUp /\ mongoClients[rec.coll] = "open"
       IN \E ok \in (IF canSucceed THEN {TRUE, FALSE} ELSE {FALSE}) :
          \E docs \in (IF ok /\ rec.op \in SeqOps THEN {<<>>, <<"doc">>} ELSE {<<>>}) :
             DocStep(t, IF ok
                        THEN [rec EXCEPT !.pc = "done", !.result = successResult(rec.op, docs)]
                        ELSE [rec EXCEPT !.pc = "done", !.excRaised = TRUE,
                                         !.result = catchResult(rec.op)])
    /\ UNCHANGED <<client, db, isConnected, mongoClients>>

\* closeMongoDBConnection(), up to "await client.close()"
closeMongoDBConnection(t) ==
    /\ docTask[t].pc = "idle"
    /\ DocStep(t, IF client # 0
                  THEN [DocCall("close") EXCEPT !.pc = "closing", !.mine = client]
                  ELSE [DocCall("close") EXCEPT !.pc = "done"])
    /\ UNCHANGED <<client, db, isConnected, mongoClients>>

\* "await client.close()" settles; a close that throws is logged and changes nothing
CloseSettles(t) ==
    /\ docTask[t].pc = "closing"
    /\ \E ok \in BOOLEAN :
          /\ mongoClients' = IF ok THEN [mongoClients EXCEPT ![docTask[t].mine] = "closed"]
                                   ELSE mongoClients
          /\ client' = IF ok THEN 0 ELSE client
          /\ db' = IF ok THEN 0 ELSE db
          /\ isConnected' = IF ok THEN FALSE ELSE isConnected
          /\ DocStep(t, [docTask[t] EXCEPT !.pc = "done", !.excRaised = ~ok,
                                           !.result = [NoResult EXCEPT !.success = ok]])

\* the document-store server becomes unreachable, or reachable again
MongoServerFlips ==
    /\ mongoUp' = ~mongoUp
    /\ lastDoc' = IdleDocTask
    /\ UNCHANGED <<USE_MONGODB, client, db, isConnected, mongoClients, docTask>>
    /\ UNCHANGED NotDoc

DocNext ==
    \/ connectToMongoDB(Lifecycle)
    \/ closeMongoDBConnection(Lifecycle)
    \/ \E t \in Handlers :
          \/ getCollection(t)
          \/ insertDocument(t)
          \/ findDocuments(t)
          \/ updateDocument(t)
          \/ deleteDocument(t)
          \/ aggregateDocuments(t)
          \/ StoreOpSettles(t)
    \/ \E t \in DocTasks :
          \/ ConnectSettles(t)
          \/ CloseSettles(t)
    \/ MongoServerFlips

\* the document store client as the /api/logs routes drive it
LogsNext ==
    \/ connectToMongoDB(Lifecycle)
    \/ closeMongoDBConnection(Lifecycle)
    \/ \E t \in Handlers :
          \/ \E op \in RouteOps : LogsRequest(t, op)
          \/ StoreOpSettles(t)
    \/ \E t \in DocTasks :
          \/ ConnectSettles(t)
          \/ CloseSettles(t)
    \/ MongoServerFlips

\* ------------------------------------------------ relational store client
DbTasks == 1..NumDbTasks
\* the .sql files of the migrations directory, numbered in ascending filename
\* order, and the orders the directory can list them in
Files == 1..NumFiles
Listings == {l \in [1..NumFiles -> Files] : \A i, j \in 1..NumFiles : l[i] = l[j] => i = j}
IdleRun == [pc |-> "idle", todo |-> <<>>, ran |-> <<>>, code |-> 0, n |-> 0]
NoExec == [file |-> 0, before |-> "none", stmtsOk |-> FALSE, storeUp |-> FALSE,
           returned |-> FALSE]
\* the callers of the specification of the one-statement calls
Readers == 1..NumReaders
ConnIds == 1..MaxDbConns
\* a write is tagged with the task that issued it and its position in that call
Writes == DbTasks \X (1..MaxFnWrites)

\* the (sql, params) pairs a caller reads with, and what the store holds for each
Pairs == {"no match", "one match", "two matches"}
ReadOps == {"query", "fetchOne"}

\* the rows connection.execute(sql, params) yields for a pair
StoreAnswer(p) ==
    CASE p = "one match" -> <<"row1">>
      [] p = "two matches" -> <<"row2", "row1">>
      [] OTHER -> <<>>

\* a value a call returns: nothing yet, null, one row, or a sequence of rows
NoValue == [kind |-> "none", val |-> <<>>]

IdleDbTask ==
    [pc |-> "idle", op |-> "none", task |-> 0, conn |-> 0, mine |-> 0, nw |-> 0,
     fn |-> "none", committed |-> FALSE, rolledBack |-> FALSE, raised |-> FALSE,
     pair |-> "none", sawNull |-> FALSE, tries |-> 0,
     qres |-> NoValue, qerr |-> "none", ret |-> NoValue, err |-> "none"]

\* query(): "const [rows] = await connection.execute(sql, params); return rows"
query(answer) == [kind |-> "rows", val |-> answer]

\* fetchOne() taking the last row instead of the first
fetchOne_lastRow(rs) ==
    IF Len(rs.val) > 0 THEN [kind |-> "row", val |-> <<rs.val[Len(rs.val)]>>]
                         ELSE [kind |-> "null", val |-> <<>>]

\* fetchOne(): "rows.length > 0 ? rows[0] : null" of the rows query() returned
fetchOne(rs) ==
    IF Len(rs.val) > 0 THEN [kind |-> "row", val |-> <<rs.val[1]>>]
                         ELSE [kind |-> "null", val |-> <<>>]

\* a catch block of connect() that logs the failure and does not raise it
connectFailed_swallowed(rec) ==
    [rec EXCEPT !.pc = "done", !.err = "connect",
                !.qerr = IF rec.op \in ReadOps THEN "connect" ELSE "none"]

\* the catch block of connect(): the failure is logged and raised to the caller,
\* through query() for the calls that read
connectFailed(rec) ==
    [rec EXCEPT !.pc = "done", !.raised = TRUE, !.err = "connect",
                !.qerr = IF rec.op \in ReadOps THEN "connect" ELSE "none"]

FreshConnIds == {c \in ConnIds : dbConns[c] = "unused"}

RelInit ==
    /\ connection = 0
    /\ dbConns = [c \in ConnIds |-> "unused"]
    /\ inTx = [c \in ConnIds |-> FALSE]
    /\ pending = [c \in ConnIds |-> {}]
    /\ rows = {}
    /\ dbTask = [t \in DbTasks |-> IdleDbTask]
    /\ lastDb = IdleDbTask
    /\ migTable = [f \in Files |-> "none"]
    /\ migRun = IdleRun
    /\ lastExec = NoExec

\* ------------------------------------------------------- migration runner
\* the statements of the runner go to the store through db.execute()/fetchAll(),
\* each of which either returns or raises

\* what run() leaves alone
MigFrame ==
    /\ UNCHANGED <<connection, dbConns, inTx, pending, rows, dbTask, lastDb>>
    /\ UNCHANGED <<docVars, bridgeVars, lifeVars>>

\* process.exit(code)
Exit(job, code) == [job EXCEPT !.pc = "exited", !.code = code, !.todo = <<>>]

\* the names of a set of files in ascending order
RECURSIVE Sorted(_)
Sorted(S) ==
    IF S = {} THEN <<>>
    ELSE LET least == CHOOSE f \in S : \A g \in S : f <= g
         IN <<least>> \o Sorted(S \ {least})

\* getMigrationFiles(): the sorted .sql names of the directory, [] when the
\* directory cannot be read
getMigrationFiles(listing, readable) ==
    IF readable THEN Sorted({listing[k] : k \in DOMAIN listing}) ELSE <<>>

\* getExecutedMigrations(): the filenames recorded with status 'success', []
\* when the SELECT raises
getExecutedMigrations(selectOk) ==
    IF selectOk THEN {f \in Files : migTable[f] = "success"} ELSE {}

\* "node migrate.js": run() starts and awaits init()
run ==
    /\ migRun.pc \in {"idle", "exited"}
    /\ migRun.n < MaxRuns
    /\ migRun' = [IdleRun EXCEPT !.pc = "init", !.n = migRun.n + 1]
    /\ lastExec' = NoExec
    /\ UNCHANGED migTable
    /\ MigFrame

\* init(): CREATE TABLE IF NOT EXISTS returns, or raises and run() exits with 1
InitSettles ==
    /\ migRun.pc = "init"
    /\ \E ok \in BOOLEAN :
          migRun' = IF ok THEN [migRun EXCEPT !.pc = "fetch"] ELSE Exit(migRun, 1)
    /\ lastExec' = NoExec
    /\ UNCHANGED migTable
    /\ MigFrame

\* run() from getExecutedMigrations() to the start of the loop: the pending
\* migrations are the files not among the executed ones; with none, run()
\* returns and the process exits with 0
PendingFound ==
    /\ migRun.pc = "fetch"
    /\ \E selectOk \in BOOLEAN, readable \in BOOLEAN, listing \in Listings :
          LET executedMigrations == getExecutedMigrations(selectOk)
              migrationFiles == getMigrationFiles(listing, readable)
              pendingMigrations ==
                  SelectSeq(migrationFiles, LAMBDA f : f \notin executedMigrations)
          IN migRun' = IF pendingMigrations = <<>> THEN Exit(migRun, 0)
                       ELSE [migRun EXCEPT !.pc = "exec", !.todo = pendingMigrations]
    /\ lastExec' = NoExec
    /\ UNCHANGED migTable
    /\ MigFrame

\* one turn of the loop of run(): executeMigration() of the next pending file.
\* Its statements all return or one raises; the INSERT of the 'success' row,
\* and in the catch block the INSERT of the 'failed' row, return only if the
\* store answers and the filename, which is UNIQUE, has no row yet. A false
\* return makes run() exit with 1; after the last file the process exits with 0.
executeMigration ==
    /\ migRun.pc = "exec"
    /\ \E stmtsOk \in BOOLEAN, storeUp \in BOOLEAN :
          LET f == Head(migRun.todo)
              recorded == stmtsOk /\ storeUp /\ migTable[f] = "none"
              failureRecorded == ~recorded /\ storeUp /\ migTable[f] = "none"
              went == [migRun EXCEPT !.ran = Append(@, f), !.todo = Tail(@)]
          IN /\ migTable' = [migTable EXCEPT ![f] =
                    IF recorded THEN "success"
                    ELSE IF failureRecorded THEN "failed" ELSE @]
             /\ lastExec' = [file |-> f, before |-> migTable[f], stmtsOk |-> stmtsOk,
                             storeUp |-> storeUp, returned |-> recorded]
             /\ migRun' = IF ~recorded THEN Exit(went, 1)
                          ELSE IF went.todo = <<>> THEN Exit(went, 0)
                          ELSE went
    /\ MigFrame

MigrateNext ==
    \/ run
    \/ InitSettles
    \/ PendingFound
    \/ executeMigration

\* Database.isConnected()
isConnectedDb == connection # 0

\* task t goes on as rec; a call that has returned (pc "done") frees the task
DbStep(t, rec) ==
    /\ dbTask' = [dbTask EXCEPT ![t] = IF rec.pc = "done" THEN IdleDbTask ELSE rec]
    /\ lastDb' = IF rec.pc = "done" THEN rec ELSE IdleDbTask
    /\ UNCHANGED NotRel

\* where a call goes once connect() has given it the handle
AfterConnect(op) ==
    CASE op = "connect" -> "done"
      [] op = "transaction" -> "begin"
      [] OTHER -> "stmt"

\* Database.connect(), up to its await: "if (!this.connection)" opens a connection,
\* otherwise the stored handle is returned
connect(t, rec) ==
    IF connection = 0
    THEN /\ FreshConnIds # {}
         /\ LET c == CHOOSE j \in FreshConnIds : \A k \in FreshConnIds : j <= k
            IN /\ dbConns' = [dbConns EXCEPT ![c] = "creating"]
               /\ DbStep(t, [rec EXCEPT !.pc = "creating", !.mine = c, !.tries = @ + 1])
    ELSE /\ DbStep(t, [rec EXCEPT !.pc = AfterConnect(rec.op), !.conn = connection])
         /\ UNCHANGED dbConns

\* a caller invokes connect(), query()/fetchAll()/fetchOne(), execute() or
\* transaction(); the writes of the task's previous call are no longer followed
DbCall(t, op) ==
    /\ dbTask[t].pc = "idle"
    /\ \E p \in (IF op \in ReadOps THEN Pairs ELSE {"none"}) :
          connect(t, [IdleDbTask EXCEPT !.op = op, !.task = t, !.pair = p,
                                        !.sawNull = (connection = 0)])
    /\ rows' = {w \in rows : w[1] # t}
    /\ pending' = [c \in ConnIds |-> {w \in pending[c] : w[1] # t}]
    /\ UNCHANGED <<connection, inTx>>

\* "await mysql.createConnection(config)" settles: this.connection is assigned and
\* returned, or the failure is logged and re-raised to the caller
CreateSettles(t) ==
    /\ dbTask[t].pc = "creating"
    /\ LET rec == dbTask[t]
       IN \E ok \in BOOLEAN :
             /\ dbConns' = [dbConns EXCEPT ![rec.mine] = IF ok THEN "open" ELSE "ended"]
             /\ connection' = IF ok THEN rec.mine ELSE connection
             /\ DbStep(t, IF ok THEN [rec EXCEPT !.pc = AfterConnect(rec.op), !.conn = rec.mine]
                                ELSE connectFailed(rec))
    /\ UNCHANGED <<inTx, pending, rows>>

\* the outcomes a statement on connection c can have: it may always fail,
\* and succeeds only on an open connection
Outcomes(c) == IF dbConns[c] = "open" THEN {TRUE, FALSE} ELSE {FALSE}

\* the server runs a write on connection c: durable at once under autocommit,
\* held in the session's transaction otherwise
WriteOn(c, w) ==
    /\ pending' = IF inTx[c] THEN [pending EXCEPT ![c] = @ \cup {w}] ELSE pending
    /\ rows' = IF inTx[c] THEN rows ELSE rows \cup {w}

\* what query(), fetchOne() and execute() return or raise once the statement
\* has settled: query() and execute() log the failure and raise it again, and
\* fetchOne() has no handler of its own around its query() call
StmtReturn(rec, ok) ==
    LET rs == query(StoreAnswer(rec.pair))
    IN CASE ~ok ->
              [rec EXCEPT !.pc = "done", !.raised = TRUE, !.err = "statement",
                          !.qerr = IF rec.op \in ReadOps THEN "statement" ELSE "none"]
         [] ok /\ rec.op = "query" ->
              [rec EXCEPT !.pc = "done", !.qres = rs, !.ret = rs]
         [] ok /\ rec.op = "fetchOne" ->
              [rec EXCEPT !.pc = "done", !.qres = rs, !.ret = fetchOne(rs)]
         [] OTHER ->
              [rec EXCEPT !.pc = "done", !.nw = 1]

\* "await connection.execute(sql, params)" of query() and execute() settles
StmtSettles(t) ==
    /\ dbTask[t].pc = "stmt"
    /\ LET rec == dbTask[t]
       IN \E ok \in Outcomes(rec.conn) :
             /\ IF ok /\ rec.op = "execute"
                THEN WriteOn(rec.conn, <<t, 1>>)
                ELSE UNCHANGED <<pending, rows>>
             /\ DbStep(t, StmtReturn(rec, ok))
    /\ UNCHANGED <<connection, dbConns, inTx>>

\* the end of transaction(): "await connection.commit(); return result" when the
\* callback returned, and the catch block "await connection.rollback(); throw
\* error" when begin, the callback or the commit failed. The commit or rollback
\* is issued in the same turn as the failure it follows, so nothing of another
\* task runs on the connection in between.
EndTransaction(t, rec, wantCommit) ==
    LET c == rec.conn
    IN \E cok \in (IF wantCommit THEN Outcomes(c) ELSE {FALSE}) :
       \E rok \in (IF cok THEN {FALSE} ELSE Outcomes(c)) :
          /\ inTx' = IF cok \/ rok THEN [inTx EXCEPT ![c] = FALSE] ELSE inTx
          /\ rows' = IF cok THEN rows \cup pending[c] ELSE rows
          /\ pending' = IF cok \/ rok THEN [pending EXCEPT ![c] = {}] ELSE pending
          /\ DbStep(t, [rec EXCEPT !.pc = "done", !.committed = cok,
                                   !.rolledBack = rok, !.raised = ~cok])

\* transaction(): "await connection.beginTransaction()" settles; a session that
\* already has a transaction open commits it when the next one begins
BeginSettles(t) ==
    /\ dbTask[t].pc = "begin"
    /\ LET rec == dbTask[t]
           c == rec.conn
       IN \E ok \in Outcomes(c) :
             IF ok
             THEN /\ inTx' = [inTx EXCEPT ![c] = TRUE]
                  /\ rows' = rows \cup pending[c]
                  /\ pending' = [pending EXCEPT ![c] = {}]
                  /\ DbStep(t, [rec EXCEPT !.pc = "fn"])
             ELSE EndTransaction(t, rec, FALSE)
    /\ UNCHANGED <<connection, dbConns>>

\* transaction(): callback(this) issues a write through db.execute(), which goes
\* to this.connection as it is now; a failed write raises inside the callback
FnWrites(t) ==
    /\ dbTask[t].pc = "fn"
    /\ dbTask[t].nw < MaxFnWrites
    /\ connection # 0
    /\ LET rec == dbTask[t]
       IN \E ok \in Outcomes(connection) :
             IF ok
             THEN /\ WriteOn(connection, <<t, rec.nw + 1>>)
                  /\ DbStep(t, [rec EXCEPT !.nw = @ + 1])
                  /\ UNCHANGED inTx
             ELSE EndTransaction(t, [rec EXCEPT !.fn = "threw"], FALSE)
    /\ UNCHANGED <<connection, dbConns>>

\* transaction(): callback(this) returns normally, or raises
FnSettles(t) ==
    /\ dbTask[t].pc = "fn"
    /\ \E normal \in BOOLEAN :
          EndTransaction(t, [dbTask[t] EXCEPT !.fn = IF normal THEN "returned" ELSE "threw"],
                         normal)
    /\ UNCHANGED <<connection, dbConns>>

\* the transport of an open connection is lost (connection error, closed by the
\* server): the session and its open transaction are gone
ConnectionLost(c) ==
    /\ dbConns[c] = "open"
    /\ dbConns' = [dbConns EXCEPT ![c] = "ended"]
    /\ inTx' = [inTx EXCEPT ![c] = FALSE]
    /\ pending' = [pending EXCEPT ![c] = {}]
    /\ lastDb' = IdleDbTask
    /\ UNCHANGED <<connection, rows, dbTask>>
    /\ UNCHANGED NotRel

\* the calls that run one statement: connect(), query(), fetchOne(), execute()
RelQueryNext ==
    \/ \E t \in Readers :
          \/ DbCall(t, "connect")
          \/ DbCall(t, "query")
          \/ DbCall(t, "fetchOne")
          \/ DbCall(t, "execute")
          \/ CreateSettles(t)
          \/ StmtSettles(t)
    \/ \E c \in ConnIds : ConnectionLost(c)

RelNext ==
    \/ \E t \in DbTasks :
          \/ DbCall(t, "connect")
          \/ DbCall(t, "query")
          \/ DbCall(t, "fetchOne")
          \/ DbCall(t, "execute")
          \/ DbCall(t, "transaction")
          \/ CreateSettles(t)
          \/ StmtSettles(t)
          \/ BeginSettles(t)
          \/ FnWrites(t)
          \/ FnSettles(t)
    \/ \E c \in ConnIds : ConnectionLost(c)

\* ------------------------------------------------------ messaging bridge
PubTasks == 1..NumPubTasks
BridgeIds == 1..MaxMqttClients

\* two contents the config resource can have; the second sets no username
FileA ==
    [mqtt |-> [host |-> "broker-a", clientId |-> <<"keos-api", 0>>, username |-> "mqtt"],
     topics |-> [prefix |-> "hotel"],
     qos |-> [default |-> 0],
     retain |-> [default |-> FALSE]]

FileB ==
    [mqtt |-> [host |-> "broker-b", clientId |-> <<"keos-b", 0>>],
     topics |-> [prefix |-> "resort"],
     qos |-> [default |-> 1],
     retain |-> [default |-> TRUE]]

\* the states of the config resource: absent, not parseable, or one of the files
ValidFiles == {"fileA", "fileB"}
BadResources == {"missing", "malformed"}

\* JSON.parse(fs.readFileSync(configPath)) of a resource that reads and parses
ParsedFile(res) == IF res = "fileA" THEN FileA ELSE FileB

\* the fallback of loadMqttConfig()
FallbackConfig ==
    [mqtt |-> [host |-> "10.5.50.48", clientId |-> <<"keos-api", 0>>, username |-> "mqtt"],
     topics |-> [prefix |-> "hotel"],
     qos |-> [default |-> 0],
     retain |-> [default |-> FALSE]]

\* loadMqttConfig() leaving the configured client id as it is
loadMqttConfig_fixedId(res, r) ==
    IF res \in BadResources THEN FallbackConfig ELSE ParsedFile(res)

\* loadMqttConfig(): the parsed resource, or the fallback when reading or parsing
\* raises; either way the client id gets the suffix of a new Math.random() draw r
loadMqttConfig(res, r) ==
    LET cfg == IF res \in BadResources THEN FallbackConfig ELSE ParsedFile(res)
    IN [cfg EXCEPT !.mqtt.clientId = <<@[1], r>>]

\* an assignment that keeps the target's own value of every key it has
ObjectAssign_targetWins(target, source) ==
    [k \in DOMAIN target \cup DOMAIN source |->
        IF k \in DOMAIN target THEN target[k] ELSE source[k]]

\* Object.assign(target, source)
ObjectAssign(target, source) ==
    [k \in DOMAIN target \cup DOMAIN source |->
        IF k \in DOMAIN source THEN source[k] ELSE target[k]]

NewClient == [state |-> "unused", cid |-> <<"", 0>>, promise |-> "none"]
\* an option of publishMessage(): {} when the caller omits it (undefined or
\* null), {v} when the caller supplies v
QosArgs == {{}} \cup {{q} : q \in 0..2}
RetainArgs == {{}, {TRUE}, {FALSE}}

\* a call of publishMessage(): its options, the options handed to the
\* transport, the transport's confirmation and the state of the promise
IdlePubTask ==
    [pc |-> "idle", live |-> FALSE, handed |-> FALSE, outcome |-> "none",
     qosArg |-> {}, retainArg |-> {},
     qosSent |-> {}, retainSent |-> {}, confirm |-> "none", settles |-> 0,
     route |-> "none", status |-> 0]

\* an option that is never read from the caller: the default always applies
Nullish_defaultOnly(arg, default) == {default}

\* "a ?? b": b when a is undefined or null, a otherwise
Nullish(arg, default) == IF arg = {} THEN {default} ELSE arg

\* a promise settles once: resolve() and reject() of a settled promise do nothing
Settle(rec, how) ==
    IF rec.outcome = "none" THEN [rec EXCEPT !.outcome = how, !.settles = @ + 1] ELSE rec

\* what a route that awaited publishMessage() answers: success once the
\* promise has resolved, 500 from its catch block when it rejected
routeAnswer(rec) ==
    IF rec.route = "none" THEN rec
    ELSE [rec EXCEPT !.status = IF rec.outcome = "resolved" THEN 200 ELSE 500]

\* a hand-off that resolves the promise as soon as the message is buffered
HandOff_resolvesAtOnce(call) ==
    Settle([call EXCEPT !.pc = "sent", !.handed = TRUE], "resolved")

\* mqttClient.publish(topic, payload, publishOptions, callback): the promise
\* stays pending until the callback runs
HandOff(call) == [call EXCEPT !.pc = "sent", !.handed = TRUE]
NoAttempt == [kind |-> "none", cid |-> <<"", 0>>]
\* the callers of subscribeToTopic(), the topics and the callbacks they pass
SubTasks == 1..NumSubTasks
Topics == {"T1", "T2"}
Callbacks == {"cbA", "cbB"}
IdleSubTask == [pc |-> "idle", topic |-> "none", cb |-> "none"]
NoMsg == [client |-> 0, topic |-> "none", called |-> {}, parses |-> TRUE, calls |-> <<>>]
NoReload ==
    [done |-> FALSE, bad |-> FALSE, returned |-> FALSE, before |-> FallbackConfig,
     res |-> "none", handle |-> 0, link |-> [i \in BridgeIds |-> NewClient]]

\* what every step of the link, the publishers and the reloads leaves alone; the
\* message that had just arrived is no longer the last event
BridgeFrame ==
    /\ lastMsg' = NoMsg
    /\ UNCHANGED <<subTask, listeners>>
    /\ UNCHANGED NotBridge

BridgeInit ==
    /\ rnd = 1
    /\ \E res \in BadResources \cup ValidFiles : CONFIG = loadMqttConfig(res, 1)
    /\ MQTT_CONFIG = CONFIG.mqtt
    /\ mqttClient = 0
    /\ bridgeClients = [i \in BridgeIds |-> NewClient]
    /\ presented = {}
    /\ reused = FALSE
    /\ lastAttempt = NoAttempt
    /\ pubTask = [t \in PubTasks |-> IdlePubTask]
    /\ lastPub = IdlePubTask
    /\ lastReload = NoReload
    /\ subTask = [t \in SubTasks |-> IdleSubTask]
    /\ listeners = [i \in BridgeIds |-> EmptyBag]
    /\ lastMsg = NoMsg

\* a connection attempt presenting identifier id reaches the broker
Attempt(kind, id) ==
    /\ presented' = presented \cup {id}
    /\ reused' = (reused \/ id \in presented)
    /\ lastAttempt' = [kind |-> kind, cid |-> id]

NoAttemptNow == lastAttempt' = NoAttempt /\ UNCHANGED <<presented, reused>>

FreshBridgeIds == {i \in BridgeIds : bridgeClients[i].state = "unused"}

\* mqttClient.connected
connected(i) == bridgeClients[i].state = "connected"

\* isConnected()
isConnectedMqtt == mqttClient # 0 /\ connected(mqttClient)

\* the guard testing only that a client exists
clientNotConnected_nullOnly == mqttClient = 0

\* the guard of publishMessage() and subscribeToTopic()
clientNotConnected == mqttClient = 0 \/ ~connected(mqttClient)

\* connectMQTT(): mqtt.connect(MQTT_CONFIG) makes a new client, which starts its
\* first connection attempt with the options it was given
connectMQTT ==
    /\ FreshBridgeIds # {}
    /\ LET i == CHOOSE j \in FreshBridgeIds : \A k \in FreshBridgeIds : j <= k
       IN /\ mqttClient' = i
          /\ bridgeClients' = [bridgeClients EXCEPT ![i] =
                 [state |-> "connecting", cid |-> MQTT_CONFIG.clientId, promise |-> "pending"]]
          /\ Attempt("connect", MQTT_CONFIG.clientId)
    /\ lastPub' = IdlePubTask
    /\ lastReload' = NoReload
    /\ UNCHANGED <<rnd, CONFIG, MQTT_CONFIG, pubTask>>
    /\ BridgeFrame

\* the broker acknowledges client i: 'connect' fires and resolves the promise
OnConnect(i) ==
    /\ bridgeClients[i].state = "connecting"
    /\ bridgeClients' = [bridgeClients EXCEPT ![i].state = "connected",
           ![i].promise = IF @ = "pending" THEN "resolved" ELSE @]
    /\ lastPub' = IdlePubTask
    /\ lastReload' = NoReload
    /\ NoAttemptNow
    /\ UNCHANGED <<rnd, CONFIG, MQTT_CONFIG, mqttClient, pubTask>>
    /\ BridgeFrame

\* a transport error on client i: 'error' fires and rejects the promise
OnError(i) ==
    /\ bridgeClients[i].state = "connecting"
    /\ bridgeClients' = [bridgeClients EXCEPT ![i].state = "offline",
           ![i].promise = IF @ = "pending" THEN "rejected" ELSE @]
    /\ lastPub' = IdlePubTask
    /\ lastReload' = NoReload
    /\ NoAttemptNow
    /\ UNCHANGED <<rnd, CONFIG, MQTT_CONFIG, mqttClient, pubTask>>
    /\ BridgeFrame

\* the transport of client i closes, either a live connection or an attempt
\* that got no acknowledgement within connectTimeout: 'close' fires and is
\* logged, the promise is left as it is
OnClose(i) ==
    /\ bridgeClients[i].state \in {"connecting", "connected"}
    /\ bridgeClients' = [bridgeClients EXCEPT ![i].state = "offline"]
    /\ lastPub' = IdlePubTask
    /\ lastReload' = NoReload
    /\ NoAttemptNow
    /\ UNCHANGED <<rnd, CONFIG, MQTT_CONFIG, mqttClient, pubTask>>
    /\ BridgeFrame

\* the transport's own reconnect (reconnectPeriod): 'reconnect' fires and is
\* logged. The client was given the MQTT_CONFIG object itself, so the id it
\* presents is the one it started with or the one a reload has written since.
OnReconnect(i) ==
    /\ bridgeClients[i].state = "offline"
    /\ \E id \in {bridgeClients[i].cid, MQTT_CONFIG.clientId} : Attempt("reconnect", id)
    /\ bridgeClients' = [bridgeClients EXCEPT ![i].state = "connecting"]
    /\ lastPub' = IdlePubTask
    /\ lastReload' = NoReload
    /\ UNCHANGED <<rnd, CONFIG, MQTT_CONFIG, mqttClient, pubTask>>
    /\ BridgeFrame

\* a disconnect that only logs: the client is not ended, the handle is kept
disconnectMQTT_logsOnly ==
    /\ lastPub' = IdlePubTask
    /\ lastReload' = NoReload
    /\ NoAttemptNow
    /\ UNCHANGED <<rnd, CONFIG, MQTT_CONFIG, mqttClient, bridgeClients, pubTask>>
    /\ BridgeFrame

\* disconnectMQTT()
disconnectMQTT ==
    /\ IF mqttClient # 0
       THEN /\ bridgeClients' = [bridgeClients EXCEPT ![mqttClient].state = "ended"]
            /\ mqttClient' = 0
       ELSE UNCHANGED <<bridgeClients, mqttClient>>
    /\ lastPub' = IdlePubTask
    /\ lastReload' = NoReload
    /\ NoAttemptNow
    /\ UNCHANGED <<rnd, CONFIG, MQTT_CONFIG, pubTask>>
    /\ BridgeFrame

\* publishMessage(), up to the transport's publish callback: rejected at once
\* when not connected, handed to the transport otherwise, with each option the
\* caller gave or else the default of CONFIG as it is now. The hand-off is kept
\* in lastPub for the one state that follows it.
PublishStart(t, q, r, route) ==
    /\ LET call == [IdlePubTask EXCEPT !.live = isConnectedMqtt, !.route = route,
                                       !.qosArg = q, !.retainArg = r]
           sent == [HandOff(call) EXCEPT
                       !.qosSent = Nullish(q, CONFIG.qos.default),
                       !.retainSent = Nullish(r, CONFIG.retain.default)]
       IN IF clientNotConnected
          THEN /\ lastPub' = routeAnswer(Settle([call EXCEPT !.pc = "done"], "not connected"))
               /\ UNCHANGED pubTask
          ELSE /\ pubTask' = [pubTask EXCEPT ![t] =
                      [IdlePubTask EXCEPT !.pc = sent.pc, !.live = sent.live,
                                          !.handed = sent.handed,
                                          !.outcome = sent.outcome,
                                          !.settles = sent.settles,
                                          !.route = sent.route]]
               /\ lastPub' = sent
    /\ lastReload' = NoReload
    /\ NoAttemptNow
    /\ UNCHANGED <<rnd, CONFIG, MQTT_CONFIG, mqttClient, bridgeClients>>
    /\ BridgeFrame

publishMessage(t) ==
    /\ pubTask[t].pc = "idle"
    /\ \E q \in QosArgs, r \in RetainArgs : PublishStart(t, q, r, "none")

\* POST /device/command, /wifi/config and /notification of the mqtt routes, with
\* a valid body: "await mqtt.publishMessage(topic, message, {qos: 1})", with
\* retain: true as well for the WiFi configuration
CommandRequest(t) ==
    /\ pubTask[t].pc = "idle"
    /\ \E r \in {{}, {TRUE}} : PublishStart(t, {1}, r, "mqtt")

\* POST /command of the devices routes: builds a response with status 'sent'
\* and answers success; the bridge is not called
DevicesCommand ==
    /\ lastPub' = [IdlePubTask EXCEPT !.pc = "done", !.live = isConnectedMqtt,
                                      !.route = "devices", !.status = 200]
    /\ lastReload' = NoReload
    /\ NoAttemptNow
    /\ UNCHANGED <<rnd, CONFIG, MQTT_CONFIG, mqttClient, bridgeClients, pubTask>>
    /\ BridgeFrame

\* the transport's publish callback: resolve(), or reject(error)
PublishSettles(t) ==
    /\ pubTask[t].pc = "sent"
    /\ \E ok \in BOOLEAN :
          lastPub' = routeAnswer(
                         Settle([pubTask[t] EXCEPT !.pc = "done",
                                                   !.confirm = IF ok THEN "ok" ELSE "error"],
                                IF ok THEN "resolved" ELSE "error"))
    /\ pubTask' = [pubTask EXCEPT ![t] = IdlePubTask]
    /\ lastReload' = NoReload
    /\ NoAttemptNow
    /\ UNCHANGED <<rnd, CONFIG, MQTT_CONFIG, mqttClient, bridgeClients>>
    /\ BridgeFrame

\* the steps of the subscriptions leave the rest of the bridge alone
SubFrame ==
    /\ lastPub' = IdlePubTask
    /\ lastReload' = NoReload
    /\ NoAttemptNow
    /\ UNCHANGED <<rnd, CONFIG, MQTT_CONFIG, mqttClient, bridgeClients, pubTask>>
    /\ UNCHANGED <<docVars, relVars, lifeVars>>

\* the listener's test with no comparison of the topics
TopicMatches_always(registered, received) == TRUE

\* the test of the 'message' listener: "receivedTopic === topic"
TopicMatches(registered, received) == received = registered

\* subscribeToTopic(), up to the transport's subscribe callback: rejected at once
\* when not connected, otherwise mqttClient.subscribe(topic, ...) is called
subscribeToTopic(t) ==
    /\ subTask[t].pc = "idle"
    /\ \E topic \in Topics, callback \in Callbacks :
          subTask' = [subTask EXCEPT ![t] =
              IF clientNotConnected
              THEN IdleSubTask
              ELSE [pc |-> "subscribing", topic |-> topic, cb |-> callback]]
    /\ lastMsg' = NoMsg
    /\ UNCHANGED listeners
    /\ SubFrame

\* the listeners there are, over all the clients
RECURSIVE ListenerCount(_)
ListenerCount(ids) ==
    IF ids = {} THEN 0
    ELSE LET i == CHOOSE j \in ids : TRUE
         IN BagCardinality(listeners[i]) + ListenerCount(ids \ {i})

\* the transport's subscribe callback: reject(error), or the 'message' listener
\* is added to mqttClient as it is now and the promise resolves; with mqttClient
\* null by then the callback raises and the promise stays pending
SubscribeSettles(t) ==
    /\ subTask[t].pc = "subscribing"
    /\ \E ok \in BOOLEAN :
          IF ok /\ mqttClient # 0
          THEN /\ ListenerCount(BridgeIds) < MaxListeners
               /\ listeners' = [listeners EXCEPT ![mqttClient] =
                      @ (+) SetToBag({<<subTask[t].topic, subTask[t].cb>>})]
          ELSE UNCHANGED listeners
    /\ subTask' = [subTask EXCEPT ![t] = IdleSubTask]
    /\ lastMsg' = NoMsg
    /\ SubFrame

\* the calls one listener makes of its callback, by what it passes: the parsed
\* value inside the try block, and the raw text from the catch block, which is
\* entered when JSON.parse raises and also when the callback itself raises
Invocations(parses, raises) ==
    IF ~parses THEN <<"raw">>
    ELSE IF raises THEN <<"parsed", "raw">>
    ELSE <<"parsed">>

\* a message arrives on a connected client: 'message' fires, every listener of
\* the client runs, and the ones whose test passes call their callback. The
\* payload parses as JSON or not; raising is the callbacks that raise when
\* they are called with the parsed value
Deliver(i, topic, parses, raising) ==
    /\ connected(i)
    /\ LET called == {l \in BagToSet(listeners[i]) : TopicMatches(l[1], topic)}
       IN lastMsg' = [client |-> i, topic |-> topic, called |-> called,
                      parses |-> parses,
                      calls |-> [l \in called |-> Invocations(parses, l[2] \in raising)]]
    /\ UNCHANGED <<subTask, listeners>>
    /\ SubFrame

\* any message, with callbacks that return and callbacks that raise
OnMessage(i, topic) ==
    \E parses \in BOOLEAN, raising \in SUBSET Callbacks :
        Deliver(i, topic, parses, raising)

\* reloadConfig(), with the config resource in state res when it is read;
\* loadMqttConfig() never raises, so the catch is never entered
reloadConfig ==
    /\ rnd < MaxLoads + 1
    /\ \E res \in BadResources \cup ValidFiles :
          LET newConfig == loadMqttConfig(res, rnd + 1)
          IN /\ CONFIG' = ObjectAssign(CONFIG, newConfig)
             /\ MQTT_CONFIG' = ObjectAssign(MQTT_CONFIG, newConfig.mqtt)
             /\ lastReload' = [done |-> TRUE, bad |-> res \in BadResources,
                               returned |-> TRUE, before |-> CONFIG, res |-> res,
                               handle |-> mqttClient, link |-> bridgeClients]
    /\ rnd' = rnd + 1
    /\ lastPub' = IdlePubTask
    /\ NoAttemptNow
    /\ UNCHANGED <<mqttClient, bridgeClients, pubTask>>
    /\ BridgeFrame

\* getConfig()
getConfig == CONFIG

\* connecting, disconnecting and the events of the transport's clients
BridgeLinkNext ==
    \/ connectMQTT
    \/ disconnectMQTT
    \/ \E i \in BridgeIds :
          \/ OnConnect(i)
          \/ OnError(i)
          \/ OnClose(i)
          \/ OnReconnect(i)

\* the link and the publishers
BridgeNext ==
    \/ BridgeLinkNext
    \/ \E t \in PubTasks :
          \/ publishMessage(t)
          \/ PublishSettles(t)

\* the link and the endpoints that send commands, WiFi configurations and
\* notifications
BridgeRoutesNext ==
    \/ connectMQTT
    \/ \E i \in BridgeIds : OnConnect(i)
    \/ \E i \in BridgeIds : OnClose(i)
    \/ \E t \in PubTasks :
          \/ CommandRequest(t)
          \/ PublishSettles(t)
    \/ DevicesCommand

\* a connected client, the publishers and the reloads of the configuration
BridgeOptionsNext ==
    \/ connectMQTT
    \/ \E i \in BridgeIds : OnConnect(i)
    \/ \E i \in BridgeIds : OnClose(i)
    \/ reloadConfig
    \/ \E t \in PubTasks :
          \/ publishMessage(t)
          \/ PublishSettles(t)

\* the link, the subscribers and the messages that arrive, for payloads that
\* parse and callbacks that return
BridgeSubNext ==
    \/ connectMQTT
    \/ \E i \in BridgeIds : OnConnect(i)
    \/ \E i \in BridgeIds : OnClose(i)
    \/ \E t \in SubTasks :
          \/ subscribeToTopic(t)
          \/ SubscribeSettles(t)
    \/ \E i \in BridgeIds, topic \in Topics : Deliver(i, topic, TRUE, {})

\* a connected client, the subscribers and messages of every kind
BridgeMsgNext ==
    \/ connectMQTT
    \/ \E i \in BridgeIds : OnConnect(i)
    \/ \E t \in SubTasks :
          \/ subscribeToTopic(t)
          \/ SubscribeSettles(t)
    \/ \E i \in BridgeIds, topic \in Topics : OnMessage(i, topic)

\* the link and the reloads of the configuration
BridgeConfigNext ==
    \/ BridgeLinkNext
    \/ reloadConfig

\* ------------------------------------------------------- lifecycle glue
Signals == {"SIGINT", "SIGTERM"}
Clients == {"relational", "docstore", "broker"}

\* no signal has arrived: neither listener has run
NoSignal == [signal |-> "none", rel |-> "idle", relConn |-> 0, doc |-> "idle", docClient |-> 0]

LifeInit ==
    /\ proc = "running"
    /\ sigHandler = NoSignal
    /\ closeCalls = {}

\* the process has not ended
Running == proc = "running"

\* the process runs and no signal has arrived
Serving == Running /\ sigHandler.signal = "none"

\* SIGINT or SIGTERM arrives: the listener of config/database.js and then the
\* listener of config/mongodb.js run, each up to its first await. db.disconnect()
\* awaits connection.end() when there is a connection and returns at once
\* otherwise; closeMongoDBConnection() awaits client.close() when there is a
\* client and returns at once otherwise. A listener whose call returned at once
\* goes on to process.exit(0) before any close of the other listener settles.
\* No listener calls disconnectMQTT().
OnSignal(sig) ==
    /\ Serving
    /\ closeCalls' = closeCalls \cup {"relational", "docstore"}
    /\ sigHandler' = [signal |-> sig,
                      rel |-> IF connection # 0 THEN "ending" ELSE "done",
                      relConn |-> connection,
                      doc |-> IF client # 0 THEN "closing" ELSE "done",
                      docClient |-> client]
    /\ proc' = IF connection # 0 /\ client # 0 THEN "running" ELSE "exited"
    /\ lastDoc' = IdleDocTask
    /\ lastDb' = IdleDbTask
    /\ UNCHANGED <<USE_MONGODB, client, db, isConnected, mongoClients, mongoUp, docTask>>
    /\ UNCHANGED <<connection, dbConns, inTx, pending, rows, dbTask, migVars>>
    /\ UNCHANGED bridgeVars

\* "await this.connection.end()" of the database.js listener settles. Settled well,
\* the handle is cleared and the listener calls process.exit(0). A rejection leaves
\* db.disconnect() and the listener rejected with nobody handling it: the runtime
\* ends the process with a failure, or only warns and the process runs on.
DisconnectSettles ==
    /\ Running
    /\ sigHandler.rel = "ending"
    /\ \E ok \in BOOLEAN, fatal \in BOOLEAN :
          /\ ok => ~fatal
          /\ sigHandler' = [sigHandler EXCEPT !.rel = IF ok THEN "done" ELSE "failed"]
          /\ connection' = IF ok THEN 0 ELSE connection
          /\ dbConns' = IF ok THEN [dbConns EXCEPT ![sigHandler.relConn] = "ended"] ELSE dbConns
          /\ inTx' = IF ok THEN [inTx EXCEPT ![sigHandler.relConn] = FALSE] ELSE inTx
          /\ pending' = IF ok THEN [pending EXCEPT ![sigHandler.relConn] = {}] ELSE pending
          /\ proc' = IF ok THEN "exited" ELSE IF fatal THEN "crashed" ELSE "running"
    /\ lastDb' = IdleDbTask
    /\ UNCHANGED <<rows, dbTask, migVars>>
    /\ UNCHANGED <<docVars, bridgeVars, closeCalls>>

\* "await client.close()" of the mongodb.js listener settles: the handles are
\* cleared, or the failure is caught and logged; either way closeMongoDBConnection()
\* returns and the listener calls process.exit(0)
MongoCloseSettles ==
    /\ Running
    /\ sigHandler.doc = "closing"
    /\ \E ok \in BOOLEAN :
          /\ sigHandler' = [sigHandler EXCEPT !.doc = IF ok THEN "done" ELSE "failed"]
          /\ mongoClients' = IF ok THEN [mongoClients EXCEPT ![sigHandler.docClient] = "closed"]
                                   ELSE mongoClients
          /\ client' = IF ok THEN 0 ELSE client
          /\ db' = IF ok THEN 0 ELSE db
          /\ isConnected' = IF ok THEN FALSE ELSE isConnected
    /\ proc' = "exited"
    /\ lastDoc' = IdleDocTask
    /\ UNCHANGED <<USE_MONGODB, mongoUp, docTask>>
    /\ UNCHANGED <<relVars, bridgeVars, closeCalls>>

\* the process from its start to its end: the three clients connect (the startup
\* call of database.js, the listen callback of server.js, the load of the mqtt
\* routes), connections come and go, and a signal ends it
LifecycleNext ==
    \/ Running /\ DbCall(1, "connect")
    \/ Running /\ CreateSettles(1)
    \/ Running /\ \E c \in ConnIds : ConnectionLost(c)
    \/ Running /\ connectToMongoDB(Lifecycle)
    \/ Running /\ ConnectSettles(Lifecycle)
    \/ Running /\ connectMQTT
    \/ Running /\ \E i \in BridgeIds : OnConnect(i)
    \/ Running /\ \E i \in BridgeIds : OnClose(i)
    \/ \E sig \in Signals : OnSignal(sig)
    \/ DisconnectSettles
    \/ MongoCloseSettles

\* ----------------------------------------------------------- specifications
\* the environment of a component that a specification does not exercise
DocQuiet == USE_MONGODB = "unset" /\ mongoUp = TRUE
BridgeQuiet == CONFIG = loadMqttConfig("fileA", 1)

InitDocStore == DocInit /\ RelInit /\ BridgeQuiet /\ BridgeInit /\ LifeInit

SpecDocStore == InitDocStore /\ [][DocNext]_vars

InitLogs == DocInit /\ RelInit /\ BridgeInit /\ BridgeQuiet /\ LifeInit

SpecLogs == InitLogs /\ [][LogsNext]_vars

InitRelational == RelInit /\ DocQuiet /\ DocInit /\ BridgeQuiet /\ BridgeInit /\ LifeInit

SpecRelational == InitRelational /\ [][RelNext]_vars

SpecMigrate == InitRelational /\ [][MigrateNext]_vars

InitRelQuery == RelInit /\ DocQuiet /\ DocInit /\ BridgeQuiet /\ BridgeInit /\ LifeInit

SpecRelQuery == InitRelQuery /\ [][RelQueryNext]_vars

InitBridge == BridgeInit /\ DocQuiet /\ DocInit /\ RelInit /\ LifeInit

SpecBridge == InitBridge /\ [][BridgeNext]_vars

\* the link with a transport that goes on: a client that is connecting gets
\* its acknowledgement, its error or the close of the attempt, and a client
\* that is offline tries again after reconnectPeriod
SpecBridgeLive ==
    /\ InitBridge
    /\ [][BridgeLinkNext]_vars
    /\ \A i \in BridgeIds :
          /\ WF_vars(OnConnect(i) \/ OnError(i) \/ OnClose(i))
          /\ WF_vars(OnReconnect(i))

SpecBridgeRoutes == InitBridge /\ [][BridgeRoutesNext]_vars

InitBridgeConfig == BridgeInit /\ DocQuiet /\ DocInit /\ RelInit /\ LifeInit

SpecBridgeConfig == InitBridgeConfig /\ [][BridgeConfigNext]_vars

InitBridgeSub == BridgeInit /\ BridgeQuiet /\ DocQuiet /\ DocInit /\ RelInit /\ LifeInit

SpecBridgeSub == InitBridgeSub /\ [][BridgeSubNext]_vars

SpecBridgeMsg == InitBridgeSub /\ [][BridgeMsgNext]_vars

InitBridgeOptions == BridgeInit /\ DocQuiet /\ DocInit /\ RelInit /\ LifeInit

SpecBridgeOptions == InitBridgeOptions /\ [][BridgeOptionsNext]_vars

InitLifecycle == DocQuiet /\ DocInit /\ RelInit /\ BridgeQuiet /\ BridgeInit /\ LifeInit

SpecLifecycle == InitLifecycle /\ [][LifecycleNext]_vars


\* ------------------------------------------------------------ the claims

DocReturned(ops) == lastDoc.pc = "done" /\ lastDoc.op \in ops

\* C2: insert, find, update, delete and aggregate always return a result object
\* and never throw; when a transport exception was raised inside the call the
\* result has success=false, degraded=true and carries an error message.
C2_NeverThrows ==
    DocReturned(DataOps) =>
        /\ ~lastDoc.result.threw
        /\ lastDoc.excRaised =>
              /\ ~lastDoc.result.success
              /\ lastDoc.result.degraded
              /\ lastDoc.result.error # ""

C2_Witness == DocReturned({"update"}) /\ lastDoc.excRaised

\* C3: shouldUse() is true exactly when the feature flag is enabled and the
\* state is Connected, in all four flag x state combinations.
C3_ShouldUse ==
    /\ shouldUseMongoDB <=> (USE_MONGODB # "false" /\ isMongoDBConnected)
    /\ DocReturned(DataOps) =>
          (lastDoc.sawShouldUse <=> (USE_MONGODB # "false" /\ lastDoc.sawConnected))
    /\ USE_MONGODB = "false" => ~shouldUseMongoDB
    /\ ~isMongoDBConnected => ~shouldUseMongoDB

C3_Witness ==
    /\ USE_MONGODB = "false"
    /\ isMongoDBConnected
    /\ DocReturned(DataOps)
    /\ ~lastDoc.sawShouldUse
    /\ lastDoc.sawConnected

\* C4: when shouldUse() is false a data operation returns at once with
\* success=false and degraded=true and does not touch the store (no connect,
\* no driver call); find and aggregate then carry data = <<>>, as does every
\* unsuccessful find or aggregate result.
C4_DegradedShortCircuit ==
    /\ \A t \in DocTasks :
          docTask[t].op \in DataOps => docTask[t].sawShouldUse
    /\ (DocReturned(DataOps) /\ ~lastDoc.sawShouldUse) =>
          /\ ~lastDoc.touched
          /\ ~lastDoc.attempted
          /\ ~lastDoc.result.success
          /\ lastDoc.result.degraded
    /\ (DocReturned(SeqOps) /\ ~lastDoc.result.success) =>
          /\ lastDoc.result.hasData
          /\ lastDoc.result.data = <<>>

C4_Witness ==
    /\ DocReturned({"aggregate"})
    /\ ~lastDoc.sawShouldUse
    /\ lastDoc.result.hasData

\* C10: a data operation invoked while the store is Disconnected triggers a
\* reconnection attempt.
C10_DataOpReconnects ==
    (DocReturned(DataOps) /\ ~lastDoc.sawConnected) => lastDoc.attempted

\* C6: transaction(fn) commits exactly when fn returned normally; when anything
\* inside fn fails it rolls back and re-raises, and after a failed transaction()
\* none of fn's writes is durable in the relational store.
C6_FailedTransactionLeavesNothing ==
    (lastDb.pc = "done" /\ lastDb.op = "transaction") =>
        /\ lastDb.committed => lastDb.fn = "returned"
        /\ lastDb.fn = "threw" => lastDb.raised
        /\ lastDb.raised => {w \in rows : w[1] = lastDb.task} = {}

\* C7: at most one underlying connection is ever open, and every caller holds
\* the handle the client stores.
C7_SingleHandle ==
    /\ Cardinality({c \in ConnIds : dbConns[c] = "open"}) <= 1
    /\ \A t \in DbTasks : dbTask[t].conn # 0 => dbTask[t].conn = connection

\* C1: reloadConfig() with a missing, unreadable or malformed resource returns
\* false and leaves the configuration getConfig() returns as it was.
C1_BadReloadKeepsConfig ==
    (lastReload.done /\ lastReload.bad) =>
        /\ ~lastReload.returned
        /\ getConfig = lastReload.before

\* C5: publish() with no live broker connection rejects at once as not
\* connected and hands nothing to the transport.
C5_PublishNotConnected ==
    /\ \A t \in PubTasks : pubTask[t].pc = "sent" => pubTask[t].live
    /\ lastPub.pc = "sent" => lastPub.live
    /\ (lastPub.pc = "done" /\ ~lastPub.live) =>
          /\ lastPub.outcome = "not connected"
          /\ ~lastPub.handed

C5_Witness ==
    /\ lastPub.pc = "done"
    /\ ~lastPub.live
    /\ mqttClient # 0
    /\ bridgeClients[mqttClient].promise = "pending"

\* C8 as claimed: no two connection attempts of the process present the same
\* client identifier.
C8_FreshIdEveryAttempt == ~reused

\* C8 as amended: the random suffix is drawn when the configuration is loaded
\* (module load and each reloadConfig()), not when connecting: every connect()
\* presents the identifier of the most recent load, so connects with no load
\* between them present the same identifier; a reconnect presents an
\* identifier some load has drawn, never one drawn for the attempt.
C8_IdPerLoad ==
    /\ lastAttempt.kind = "connect" => lastAttempt.cid[2] = rnd
    /\ lastAttempt.kind = "connect" => lastAttempt.cid = CONFIG.mqtt.clientId
    /\ \A id \in presented : id[2] \in 1..rnd

C8_Witness ==
    /\ lastAttempt.kind = "connect"
    /\ reused
    /\ rnd > 1

\* C9: once the process has exited on SIGINT or SIGTERM, the close operation of
\* the relational client, of the document store client and of the broker client
\* has each been called, and each close that was begun has settled.
C9_ShutdownClosesAll ==
    proc = "exited" =>
        /\ closeCalls = Clients
        /\ sigHandler.rel \in {"done", "failed"}
        /\ sigHandler.doc \in {"done", "failed"}

\* C11: when a data operation has failed with a transport error, the state is
\* Disconnected: isConnected() and shouldUse() report false.
C11_TransportErrorDisconnects ==
    (DocReturned(DataOps) /\ lastDoc.excRaised) =>
        /\ ~isMongoDBConnected
        /\ ~shouldUseMongoDB

\* C12: the relational client tracks the liveness of its connection: whenever
\* isConnected() reports true the stored handle is a connection that is open.
C12_LivenessTracked == isConnectedDb => dbConns[connection] = "open"

\* C19: transactions do not interleave on a connection: no two transaction()
\* calls are between their begin and their commit or rollback on the same
\* connection at once.
C19_TransactionsSerialized ==
    \A t1, t2 \in DbTasks :
        (/\ dbTask[t1].pc = "fn"
         /\ dbTask[t2].pc = "fn"
         /\ dbTask[t1].conn = dbTask[t2].conn) => t1 = t2

\* C13: fetchOne returns the first row of the sequence query returns for the
\* same (sql, params) pair, null when that sequence is empty, and fails with
\* query's error when query fails.
C13_FetchOneFirstRow ==
    /\ (lastDb.pc = "done" /\ lastDb.op = "query" /\ ~lastDb.raised) =>
          lastDb.ret = query(StoreAnswer(lastDb.pair))
    /\ (lastDb.pc = "done" /\ lastDb.op = "fetchOne") =>
          LET rs == StoreAnswer(lastDb.pair)
          IN /\ lastDb.qerr = "none" =>
                   /\ ~lastDb.raised
                   /\ lastDb.qres = query(rs)
                   /\ Len(rs) = 0 => lastDb.ret.kind = "null"
                   /\ Len(rs) > 0 =>
                         (lastDb.ret.kind = "row" /\ lastDb.ret.val = <<rs[1]>>)
             /\ lastDb.qerr # "none" =>
                   /\ lastDb.raised
                   /\ lastDb.err = lastDb.qerr
                   /\ lastDb.ret = NoValue

C13_Witness ==
    /\ lastDb.pc = "done"
    /\ lastDb.op = "fetchOne"
    /\ lastDb.pair = "two matches"
    /\ lastDb.ret.kind = "row"

\* C18: a failed connect attempt stores no handle and is raised to the caller;
\* query, fetchOne and execute called while there is no handle make exactly one
\* connect attempt, and raise the failure of that attempt or of the statement.
C18_OneAttemptPerCall ==
    (lastDb.pc = "done" /\ lastDb.op \in {"connect", "query", "fetchOne", "execute"}) =>
        /\ lastDb.tries <= 1
        /\ lastDb.sawNull => lastDb.tries = 1
        /\ lastDb.err = "connect" =>
              /\ lastDb.raised
              /\ connection # lastDb.mine
              /\ dbConns[lastDb.mine] = "ended"
        /\ lastDb.err = "statement" => lastDb.raised
        /\ lastDb.raised <=> lastDb.err # "none"
        /\ Running

C18_Witness ==
    /\ lastDb.pc = "done"
    /\ lastDb.op = "query"
    /\ lastDb.err = "connect"
    /\ lastDb.tries = 1
    /\ connection = 0
    /\ Cardinality({c \in ConnIds : dbConns[c] = "ended"}) >= 2

\* C14: a message handed to the transport carries the qos and the retain flag
\* the caller supplied, qos 0 and retain false included, and for each option
\* the caller omitted the default of the configuration loaded at that time.
C14_PublishOptions ==
    lastPub.pc = "sent" =>
        /\ lastPub.qosArg # {} => lastPub.qosSent = lastPub.qosArg
        /\ lastPub.retainArg # {} => lastPub.retainSent = lastPub.retainArg
        /\ lastPub.qosArg = {} => lastPub.qosSent = {getConfig.qos.default}
        /\ lastPub.retainArg = {} => lastPub.retainSent = {getConfig.retain.default}

C14_Witness ==
    /\ lastPub.pc = "sent"
    /\ lastPub.qosArg = {0}
    /\ lastPub.retainArg = {}
    /\ getConfig.qos.default = 1
    /\ lastPub.retainSent = {TRUE}
    /\ rnd > 1

\* C15: a publish() on a live connection stays pending while the message is
\* with the transport; it resolves exactly when the transport's confirmation
\* reports success, rejects exactly when it reports an error, and has then
\* settled once.
C15_SettlesOnConfirmation ==
    /\ \A t \in PubTasks :
          pubTask[t].pc = "sent" => (pubTask[t].outcome = "none" /\ pubTask[t].settles = 0)
    /\ lastPub.pc = "sent" => (lastPub.outcome = "none" /\ lastPub.settles = 0)
    /\ (lastPub.pc = "done" /\ lastPub.handed) =>
          /\ lastPub.settles = 1
          /\ lastPub.confirm # "none"
          /\ lastPub.outcome = "resolved" <=> lastPub.confirm = "ok"
          /\ lastPub.outcome = "error" <=> lastPub.confirm = "error"

C15_Witness ==
    /\ lastPub.pc = "done"
    /\ lastPub.handed
    /\ lastPub.confirm = "error"
    /\ lastPub.outcome = "error"

C17_ReloadReplacesTables ==
    (lastReload.done /\ ~lastReload.bad) =>
        /\ getConfig.topics = ParsedFile(lastReload.res).topics
        /\ getConfig.qos = ParsedFile(lastReload.res).qos
        /\ getConfig.retain = ParsedFile(lastReload.res).retain
        /\ mqttClient = lastReload.handle
        /\ bridgeClients = lastReload.link

C17_Witness ==
    /\ lastReload.done
    /\ lastReload.res = "fileB"
    /\ lastReload.before.topics = FileA.topics
    /\ getConfig.qos.default = 1
    /\ mqttClient # 0
    /\ isConnectedMqtt

\* C20: a valid request to a /api/logs data endpoint is answered 200, 201 or
\* 503, never 500 and never left unanswered; it is answered 503 with
\* degraded=true whenever the store was disabled or disconnected at the
\* availability check, the transport raised during the operation, or the
\* operation came back degraded.
C20_OutageAnswers503 ==
    (lastDoc.route /\ lastDoc.pc = "done") =>
        /\ lastDoc.status \in {200, 201, 503}
        /\ (~lastDoc.sawShouldUse \/ lastDoc.excRaised \/ lastDoc.result.degraded) =>
              (lastDoc.status = 503 /\ lastDoc.degradedBody)

C20_Witness ==
    /\ lastDoc.route
    /\ lastDoc.pc = "done"
    /\ lastDoc.sawShouldUse
    /\ lastDoc.excRaised
    /\ ~mongoUp
    /\ lastDoc.status = 503

\* C21: the promise of every connectMQTT() call settles: while it is pending it
\* will be resolved or rejected.
C21_ConnectSettles ==
    \A i \in BridgeIds :
        (bridgeClients[i].promise = "pending") ~> (bridgeClients[i].promise # "pending")

\* C22: disconnectMQTT() leaves isConnected() false; called with no client it
\* changes neither the handle nor any client; and from then on the handle stays
\* null, so that isConnected() is false and publishMessage() rejects as not
\* connected without handing anything over, until a connectMQTT() call.
C22_DisconnectTerminal ==
    [][ /\ disconnectMQTT =>
             /\ ~isConnectedMqtt'
             /\ clientNotConnected'
             /\ mqttClient = 0 => UNCHANGED <<mqttClient, bridgeClients>>
        /\ (mqttClient = 0 /\ mqttClient' # 0) => connectMQTT
        /\ \A t \in PubTasks :
             (mqttClient = 0 /\ publishMessage(t)) =>
                 (lastPub'.outcome = "not connected" /\ ~lastPub'.handed)
      ]_vars

C22_Witness ==
    /\ mqttClient = 0
    /\ \E i \in BridgeIds : bridgeClients[i].state = "ended"
    /\ \A i \in BridgeIds : bridgeClients[i].state \in {"ended", "unused"}
    /\ lastPub.pc = "done"
    /\ lastPub.outcome = "not connected"

\* C23: connectToMongoDB() never raises. It returns null exactly when its own
\* connection attempt failed, and the client is then disconnected; it returns
\* the stored database handle otherwise, and the client is then connected; a
\* call made while connected makes no new client and returns the stored handle.
C23_ConnectNeverThrows ==
    (lastDoc.pc = "done" /\ lastDoc.op = "connect") =>
        /\ ~lastDoc.result.threw
        /\ lastDoc.result.handle = 0 => ~isMongoDBConnected
        /\ lastDoc.result.handle # 0 => (isMongoDBConnected /\ lastDoc.result.handle = db)
        /\ lastDoc.attempted =>
              (lastDoc.result.handle # 0 <=> mongoClients[lastDoc.mine] = "open")
        /\ lastDoc.sawConnected <=> ~lastDoc.attempted
        /\ ~lastDoc.attempted => lastDoc.result.handle # 0

C23_Witness ==
    /\ lastDoc.pc = "done"
    /\ lastDoc.op = "connect"
    /\ lastDoc.sawConnected
    /\ ~lastDoc.attempted
    /\ lastDoc.result.handle = db
    /\ \A i \in MongoIds : mongoClients[i] = "unused" \/ i = client

\* C24: an endpoint that sends a device command, a WiFi configuration or a
\* notification answers success only for a message the transport confirmed,
\* and answers 500 when there was no live broker connection.
C24_SuccessOnlyIfPublished ==
    (lastPub.pc = "done" /\ lastPub.route # "none") =>
        /\ lastPub.status = 200 => (lastPub.handed /\ lastPub.confirm = "ok")
        /\ ~lastPub.live => lastPub.status = 500

\* C25: each listener registered for the topic of a message that has arrived
\* calls its callback once: with the parsed value when the payload parses, with
\* the raw text when it does not.
C25_CallbackOnce ==
    lastMsg.client # 0 =>
        \A l \in lastMsg.called :
            lastMsg.calls[l] = IF lastMsg.parses THEN <<"parsed">> ELSE <<"raw">>

\* C26: every document-store client that is open is the one the module's
\* client variable names, and every broker client that is connected is the one
\* mqttClient names: no client is left open and unreferenced.
C26_OneLiveHandle ==
    /\ \A i \in MongoIds : mongoClients[i] = "open" => i = client
    /\ \A i \in BridgeIds : connected(i) => i = mqttClient

\* C27: whenever isMongoDBConnected() is true, client and db are not null, db is
\* the handle of that client, and that client's own connect has completed
\* successfully.
C27_ConnectedHasHandle ==
    isMongoDBConnected =>
        /\ client # 0
        /\ db # 0
        /\ db = client
        /\ mongoClients[client] = "open"

\* C28: after a reloadConfig() that read a valid resource, the options
\* connectMQTT() would pass to the transport, MQTT_CONFIG, have the same fields
\* and values as getConfig().mqtt.
C28_ConnectOptionsCurrent ==
    (lastReload.done /\ ~lastReload.bad) =>
        /\ DOMAIN MQTT_CONFIG = DOMAIN getConfig.mqtt
        /\ \A k \in DOMAIN MQTT_CONFIG \cap DOMAIN getConfig.mqtt :
              MQTT_CONFIG[k] = getConfig.mqtt[k]

\* C29: when a migration recorded as 'failed' is executed again and all its
\* statements succeed, with the store answering, executeMigration() returns
\* true and the migration is recorded with status 'success'.
C29_FailedMigrationRecovers ==
    (lastExec.file # 0 /\ lastExec.before = "failed" /\ lastExec.stmtsOk /\ lastExec.storeUp) =>
        /\ lastExec.returned
        /\ migTable[lastExec.file] = "success"

\* C30: within one run the migrations are executed in ascending filename
\* order, none is executed that was recorded with status 'success', and a
\* migration that fails is the last one of its run, which exits with 1.
C30_OrderedOnceStopOnFailure ==
    /\ \A i, j \in DOMAIN migRun.ran : i < j => migRun.ran[i] < migRun.ran[j]
    /\ lastExec.file # 0 => lastExec.before # "success"
    /\ (lastExec.file # 0 /\ ~lastExec.returned) =>
          (migRun.pc = "exited" /\ migRun.code = 1)

====
